---------------------------- MODULE Spec2Model ----------------------------
(***************************************************************************)
(* Telegram <-> Notion bot (src/app.py): the pending-confirmation state    *)
(* machine, the undo stack, the expiry sweep and the Notion retry          *)
(* wrappers.                                                               *)
(*                                                                         *)
(* Texts are sequences of one-character strings; a Vietnamese letter with  *)
(* diacritics is one element written in ASCII (o' = o-acute, a' = a-acute, *)
(* dd = d-stroke).                                                         *)
(*                                                                         *)
(* Threads: telegram_webhook starts one thread per message.  A thread's    *)
(* steps are the blocks of its code between two blocking calls (an HTTP    *)
(* request, a sleep, a thread start); accesses to pending_confirm that the *)
(* code makes in separate functions are separate steps too, since CPython  *)
(* may switch threads between any two bytecodes.                           *)
(*                                                                         *)
(* Time: only the difference expires - now is ever examined, so an entry's *)
(* expires field holds that difference (clamped below at -1 = deadline     *)
(* passed); one Tick is one period of the sweep thread's sleep.            *)
(***************************************************************************)
EXTENDS Integers, Sequences, FiniteSets, TLC

----------------------------------------------------------------------------
(* Bounds *)

MaxMsgs == 3

----------------------------------------------------------------------------
(* Sequence and text helpers *)

Range(s) == {s[i] : i \in 1..Len(s)}

Min2(a, b) == IF a <= b THEN a ELSE b

Max2(a, b) == IF a >= b THEN a ELSE b

\* range(a, b + 1) as a sequence
RangeSeq(a, b) == [i \in 1..Max2(0, b - a + 1) |-> a + i - 1]

RECURSIVE SortedSeqOfSet(_)
SortedSeqOfSet(S) ==
    IF S = {} THEN <<>>
    ELSE LET m == CHOOSE x \in S : \A y \in S : x <= y
         IN <<m>> \o SortedSeqOfSet(S \ {m})

UpperChars == <<"A","B","C","D","E","F","G","H","I","J","K","L","M",
                "N","O","P","Q","R","S","T","U","V","W","X","Y","Z">>

LowerChars == <<"a","b","c","d","e","f","g","h","i","j","k","l","m",
                "n","o","p","q","r","s","t","u","v","w","x","y","z">>

DigitChars == <<"0","1","2","3","4","5","6","7","8","9">>

LowerChar(c) ==
    IF \E i \in 1..26 : UpperChars[i] = c
    THEN LowerChars[CHOOSE i \in 1..26 : UpperChars[i] = c]
    ELSE c

\* str.lower()
Lower(s) == [i \in 1..Len(s) |-> LowerChar(s[i])]

IsDigitChar(c) == \E i \in 1..10 : DigitChars[i] = c

DigitVal(c) == (CHOOSE i \in 1..10 : DigitChars[i] = c) - 1

\* str.isdigit()
IsDigit(s) == Len(s) > 0 /\ \A i \in 1..Len(s) : IsDigitChar(s[i])

RECURSIVE IntOf(_)
\* int(s) for a digit string
IntOf(s) ==
    IF Len(s) = 0 THEN 0
    ELSE 10 * IntOf(SubSeq(s, 1, Len(s) - 1)) + DigitVal(s[Len(s)])

RECURSIVE Strip(_)
\* str.strip()
Strip(s) ==
    IF Len(s) = 0 THEN s
    ELSE IF s[1] = " " THEN Strip(Tail(s))
    ELSE IF s[Len(s)] = " " THEN Strip(SubSeq(s, 1, Len(s) - 1))
    ELSE s

\* sub in s
Contains(s, sub) ==
    \E i \in 1..(Len(s) - Len(sub) + 1) : SubSeq(s, i, i + Len(sub) - 1) = sub

\* s.endswith(suf)
EndsWith(s, suf) ==
    Len(s) >= Len(suf) /\ SubSeq(s, Len(s) - Len(suf) + 1, Len(s)) = suf

RECURSIVE SplitOn(_, _)
\* s.split(sep) for a one-character separator: every field, empty ones too
SplitOn(s, sep) ==
    IF \A i \in 1..Len(s) : s[i] # sep THEN <<s>>
    ELSE LET k == CHOOSE i \in 1..Len(s) :
                     s[i] = sep /\ \A j \in 1..(i - 1) : s[j] # sep
         IN <<SubSeq(s, 1, k - 1)>> \o SplitOn(SubSeq(s, k + 1, Len(s)), sep)

\* s.split(): the whitespace-separated words, no empty ones
Words(s) == SelectSeq(SplitOn(s, " "), LAMBDA w : Len(w) > 0)


\* int(s): optional surrounding blanks and sign, then decimal digits
PyIntOk(s) ==
    LET t == Strip(s)
        u == IF Len(t) > 0 /\ t[1] \in {"-", "+"} THEN Tail(t) ELSE t
    IN IsDigit(u)

PyInt(s) ==
    LET t == Strip(s)
        u == IF Len(t) > 0 /\ t[1] \in {"-", "+"} THEN Tail(t) ELSE t
    IN IF Len(t) > 0 /\ t[1] = "-" THEN 0 - IntOf(u) ELSE IntOf(u)

----------------------------------------------------------------------------
(* Command parsing *)

CancelWordsHandler ==
    { <<"/","c","a","n","c","e","l">>, <<"c","a","n","c","e","l">>,
      <<"h","u?","y">>, <<"h","u","y">> }

CancelWordsPending == CancelWordsHandler \cup { <<"h","u","y?">> }

\* a confirmation that also takes the selection '1' for an OK
OkWordsLoose ==
    { <<"o","k">>, <<"/","o","k">>, <<"y","e","s">>,
      <<"dd","o^`","n","g"," ","y'">>, <<"d","o","n","g"," ","y">>, <<"1">> }

OkWords ==
    { <<"o","k">>, <<"/","o","k">>, <<"y","e","s">>,
      <<"dd","o^`","n","g"," ","y'">>, <<"d","o","n","g"," ","y">> }

UndoWords == { <<"u","n","d","o">>, <<"/","u","n","d","o">> }

ArchiveWords ==
    { <<"x","o'","a">>, <<"a","r","c","h","i","v","e">>, <<"d","e","l">>,
      <<"d","e","l","e","t","e">> }

DaoWords ==
    { <<"dd","a'","o">>, <<"d","a","o">>, <<"d","a","o'">>,
      <<"dd","a'","o"," ","h","a.","n">> }

AllWords == { <<"a","l","l">>, <<"t","a^'","t"," ","c","a?">>,
              <<"t","a","t"," ","c","a">> }

\* parse_user_command: <<keyword, count, action>>
parse_user_command(raw0) ==
    LET raw   == Strip(raw0)
        parts == Words(raw)
        low   == Lower(raw)
    IN IF Len(raw) = 0 THEN [kw |-> <<>>, count |-> 0, action |-> "none"]
       ELSE IF Len(parts) > 1 /\ IsDigit(parts[2])
            THEN [kw |-> parts[1], count |-> IntOf(parts[2]), action |-> "mark"]
       ELSE IF low \in UndoWords
            THEN [kw |-> parts[1], count |-> 0, action |-> "undo"]
       ELSE IF \E x \in ArchiveWords : Contains(low, x)
            THEN [kw |-> parts[1], count |-> 0, action |-> "archive"]
       ELSE IF \E x \in DaoWords : Contains(low, x)
            THEN [kw |-> parts[1], count |-> 0, action |-> "dao"]
       ELSE [kw |-> parts[1], count |-> 0, action |-> "none"]

\* the integers one comma-separated part of a selection contributes
SelectionPart(p0, found_len) ==
    LET p == Strip(p0)
    IN IF Contains(p, <<"-">>)
       THEN LET k == CHOOSE i \in 1..Len(p) :
                         p[i] = "-" /\ \A j \in 1..(i - 1) : p[j] # "-"
                a == SubSeq(p, 1, k - 1)
                b == SubSeq(p, k + 1, Len(p))
            IN IF PyIntOk(a) /\ PyIntOk(b)
               THEN Min2(PyInt(a), PyInt(b)) .. Max2(PyInt(a), PyInt(b))
               ELSE {}
       ELSE IF PyIntOk(p)
            THEN LET n == PyInt(p)
                 IN IF n > 1 /\ found_len >= n THEN 1..n ELSE {n}
            ELSE {}

\* parse_user_selection_text: the sorted list of distinct selected integers
parse_user_selection_text(sel_text, found_len) ==
    LET s     == Lower(Strip(sel_text))
        parts == SplitOn(s, ",")
    IN IF s \in AllWords THEN RangeSeq(1, found_len)
       ELSE SortedSeqOfSet(UNION {SelectionPart(parts[i], found_len) :
                                     i \in 1..Len(parts)})

----------------------------------------------------------------------------
(* Title matching *)

\* the base letter of an accented letter (NFD, combining marks dropped);
\* d-stroke has no decomposition and stays
BaseChar(c) ==
    CASE c \in {"a'", "a.", "a?", "a^'"} -> "a"
      [] c \in {"o'", "o^`"}             -> "o"
      [] c = "u?"                        -> "u"
      [] c \in {"y'", "y?"}              -> "y"
      [] OTHER                           -> c

normalize_text(s) ==
    LET t == Lower(Strip(s)) IN [i \in 1..Len(t) |-> BaseChar(t[i])]

IsAlnum(c) == IsDigitChar(c) \/ \E i \in 1..26 : LowerChars[i] = c

RECURSIVE SplitNonAlnum(_)
SplitNonAlnum(s) ==
    IF \A i \in 1..Len(s) : IsAlnum(s[i]) THEN <<s>>
    ELSE LET k == CHOOSE i \in 1..Len(s) :
                     ~IsAlnum(s[i]) /\ \A j \in 1..(i - 1) : IsAlnum(s[j])
         IN <<SubSeq(s, 1, k - 1)>> \o SplitNonAlnum(SubSeq(s, k + 1, Len(s)))

tokenize_title(title) ==
    SelectSeq(SplitNonAlnum(normalize_text(title)), LAMBDA w : Len(w) > 0)

\* re.match(r'^g[0-9]+$', kw)
IsGcode(tok) == Len(tok) > 1 /\ tok[1] = "g" /\ IsDigit(Tail(tok))

RECURSIVE StripZeros(_)
StripZeros(d) == IF Len(d) > 1 /\ d[1] = "0" THEN StripZeros(Tail(d)) ELSE d

normalize_gcode(tok) ==
    IF IsGcode(tok) THEN <<"g">> \o StripZeros(Tail(tok)) ELSE tok

\* the matching rule shared by find_target_matches, find_calendar_matches
\* and the archive command
TitleMatches(keyword, title) ==
    LET kw     == normalize_text(keyword)
        clean  == normalize_text(title)
        tokens == tokenize_title(title)
    IN /\ Len(title) > 0
       /\ \/ clean = kw
          \/ IsGcode(kw) /\ \E i \in 1..Len(tokens) :
                                normalize_gcode(tokens[i]) = normalize_gcode(kw)
          \/ ~IsGcode(kw) /\ \E i \in 1..Len(tokens) : Contains(tokens[i], kw)
          \/ SubSeq(clean, 1, Len(kw) + 1) = kw \o <<"-">>

----------------------------------------------------------------------------
(* The Notion workspace *)

\* target database: two customers
TargetIds == <<11, 12>>

\* the properties of the two customers when the bot starts
\* the properties of a target that the ON / OFF switch writes: status,
\* Ngay Dao, ngay xong (0: no date), and whether the two relations are linked
SwitchProps(status, ngay_dao, ngay_xong, qdt, ttd) ==
    [status |-> status, ngay_dao |-> ngay_dao, ngay_xong |-> ngay_xong,
     qdt |-> qdt, ttd |-> ttd]

InitialTargets ==
    [t \in {11, 12} |->
        IF t = 11
        THEN [title |-> <<"G","1","-","g","a","m">>, dao |-> "green",
              truoc |-> 20, ngay_truoc |-> 2, g_ngay |-> 10, lai |-> 5,
              ck |-> 5, sw |-> SwitchProps("In progress", 3, 0, TRUE, TRUE)]
        ELSE [title |-> <<"G","2","-","g","a","m">>, dao |-> "red",
              truoc |-> 0, ngay_truoc |-> 0, g_ngay |-> 10, lai |-> 0,
              ck |-> 0, sw |-> SwitchProps("Done", 1, 2, FALSE, FALSE)]]

\* today's date (UTC+7), as a day number; 0 stands for "no date"
Today == 10

\* a calendar or Lai page; owner is the target whose title it carries and
\* which its relation points to
Page(db, owner, date, checked) ==
    [db |-> db, owner |-> owner, date |-> date, checked |-> checked,
     archived |-> FALSE]

InitialPages ==
    << Page("cal", 11, 1, FALSE), Page("cal", 11, 2, FALSE),
       Page("cal", 12, 0, FALSE) >>

VARIABLES
    pages,          \* Notion pages, a page's id is its index
    pending_confirm,\* chat -> the pending entry (type "none": no entry)
    undo_stack,     \* chat -> sequence of undo records
    pc,             \* thread -> position in its code
    txt,            \* thread -> text of the message it handles
    loc,            \* thread -> its local variables
    did,            \* thread -> Notion requests it got a success for
    sweep,          \* position of the sweep_pending_expirations thread
    rq,             \* a call of _notion_post or _notion_patch
    target,         \* target page id -> its properties
    env,            \* the environment variables the module reads at import
    anim,           \* handler thread -> the animation thread it has started
    ping            \* the daily_ping_1355_vn thread and the clock it reads

vars == <<pages, pending_confirm, undo_stack, pc, txt, loc, did, sweep, rq,
          target, env, anim, ping>>

\* the properties of a target page, as a query of the target database or
\* the entry's copy of them gives them
TargetProps(t) == target[t]

\* dao_preview_text_from_props: can, and what the preview text announces
dao_preview_text_from_props(props) ==
    IF props.dao = "red" THEN [can |-> FALSE, says |-> "cannot"]
    ELSE IF props.dao = "green" /\ props.ngay_truoc > 0
         THEN [can |-> TRUE, says |-> "take"]
         ELSE [can |-> TRUE, says |-> "no_take"]

Chats == {"c1", "c2"}

Threads == 1..MaxMsgs

\* the chat the bot's owner writes from
MainChat == "c1"

\* the chat id of the message thread t handles
ChatOf(t) == loc[t].chat

----------------------------------------------------------------------------
(* Program constants *)

\* WAIT_CONFIRM, in sweep periods (the environment variable, set to 10 s)
WAIT_CONFIRM == 2

\* turns of the animation loop within its duration (duration / interval)
AnimEdits == 2

\* the literal 0 that stop_waiting_animation stores in expires
ExpiresZero == -2

\* is LA_NOTION_DATABASE_ID configured
\* a deployment in which the Lai database is always taken as configured
LaAlwaysConfigured == TRUE

LA_NOTION_DATABASE_ID == env.LA_NOTION_DATABASE_ID

\* the environment of the deployment: the Lai database is configured
InitialEnv ==
    [LA_NOTION_DATABASE_ID |-> TRUE, TELEGRAM_CHAT_ID |-> MainChat,
     SWITCH_QDT_PAGE_ID |-> TRUE, SWITCH_TTD_PAGE_ID |-> TRUE]

\* a bot that takes commands from every chat
ChatAlwaysAllowed(c) == TRUE

\* the check of handle_incoming_message on the chat id: no restriction when
\* TELEGRAM_CHAT_ID is empty
ChatAllowed(c) == env.TELEGRAM_CHAT_ID = "" \/ c = env.TELEGRAM_CHAT_ID

----------------------------------------------------------------------------
(* Queries *)

RECURSIVE StableSort(_, _)
\* list.sort(key=...): ascending in key[x], equal keys keep their order
StableSort(seq, key) ==
    IF Len(seq) <= 1 THEN seq
    ELSE LET x    == seq[Len(seq)]
             rest == StableSort(SubSeq(seq, 1, Len(seq) - 1), key)
             n    == Cardinality({i \in 1..Len(rest) : key[rest[i]] <= key[x]})
         IN SubSeq(rest, 1, n) \o <<x>> \o SubSeq(rest, n + 1, Len(rest))

PageIds(ps) == [i \in 1..Len(ps) |-> i]

\* query_database_all(NOTION_DATABASE_ID): Notion lists the pages of the
\* database that are not archived
CalQuery(ps) ==
    SelectSeq(PageIds(ps), LAMBDA i : ps[i].db = "cal" /\ ~ps[i].archived)

PageTitle(ps, i) == TargetProps(ps[i].owner).title

\* sort key (date is None, date or "")
KeyNoneLast(ps) ==
    [i \in 1..Len(ps) |-> IF ps[i].date = 0 THEN 1000 ELSE ps[i].date]

\* sort key (date or ""): the empty string sorts before every date
KeyDateOrEmpty(ps) == [i \in 1..Len(ps) |-> ps[i].date]

\* the same key as KeyNoneLast under reverse=True
KeyNoneLastReversed(ps) == [i \in 1..Len(ps) |-> 0 - KeyNoneLast(ps)[i]]

find_calendar_matches(ps, keyword) ==
    StableSort(SelectSeq(CalQuery(ps),
                   LAMBDA i : TitleMatches(keyword, PageTitle(ps, i))
                              /\ ~ps[i].checked),
               KeyNoneLast(ps))

\* the list the archive command builds: checked pages too, newest first
archive_matches(ps, keyword) ==
    StableSort(SelectSeq(CalQuery(ps),
                   LAMBDA i : TitleMatches(keyword, PageTitle(ps, i))),
               KeyNoneLastReversed(ps))

find_target_matches(keyword) ==
    SelectSeq(TargetIds, LAMBDA t : TitleMatches(keyword, TargetProps(t).title))

\* count_checked_unchecked: <<checked, unchecked>> over the pages whose
\* '-'-separated title parts contain the keyword
count_checked_unchecked(ps, keyword) ==
    LET kw  == normalize_text(keyword)
        hit == {i \in Range(CalQuery(ps)) :
                   LET clean == normalize_text(PageTitle(ps, i))
                       parts == SplitOn(clean, "-")
                   IN clean = kw \/ \E j \in 1..Len(parts) : Strip(parts[j]) = kw}
    IN << Cardinality({i \in hit : ps[i].checked}),
          Cardinality({i \in hit : ~ps[i].checked}) >>

----------------------------------------------------------------------------
(* State *)

NoEntry ==
    [type |-> "none", matches |-> <<>>, targets |-> <<>>,
     expires |-> ExpiresZero, by |-> 0]

\* a fresh pending entry: expires = time.time() + WAIT_CONFIRM; by is the
\* thread that built the dictionary (its identity)
Entry(type, matches, targets, t) ==
    [type |-> type, matches |-> matches, targets |-> targets,
     expires |-> WAIT_CONFIRM, by |-> t]

UndoRecord(action, pgs, archived_pages, created_pages, lai_page) ==
    [action |-> action, pages |-> pgs, archived_pages |-> archived_pages,
     created_pages |-> created_pages, lai_page |-> lai_page]

NoLoc == [kw |-> <<>>, sel |-> <<>>, act |-> "none", i |-> 0, ent |-> 0,
          late |-> FALSE, arch |-> <<>>, made |-> <<>>, nfail |-> 0,
          chat |-> MainChat, reply |-> "none"]

\* the deadline of entry e has passed: expires < now
DeadlinePassed(e) == e.type # "none" /\ e.expires = -1

\* the daily ping thread before its first statement: the clock (day, slot
\* of the day), the slot of day 0 the process started in, the thread's
\* position, its last_ping_date (-1: None), the time it sleeps until, and
\* the days a GET was sent on, in order
NoPing ==
    [day |-> 0, slot |-> 0, start |-> 0, pc |-> "loop", last_ping_date |-> -1,
     wake |-> 0, sent |-> <<>>]

\* no animation thread: the handler has not called start_waiting_animation
NoAnim == [st |-> "none", left |-> 0, msg |-> "none", stopped |-> FALSE]

\* no call of a Notion wrapper is being followed
NoCall == [fn |-> "none", attempts |-> 0, i |-> 0, log |-> <<>>,
           last_exc |-> FALSE, result |-> "none"]

Init ==
    /\ pages = InitialPages
    /\ pending_confirm = [c \in Chats |-> NoEntry]
    /\ undo_stack = [c \in Chats |-> <<>>]
    /\ pc = [t \in Threads |-> "idle"]
    /\ txt = [t \in Threads |-> <<>>]
    /\ loc = [t \in Threads |-> NoLoc]
    /\ did = [t \in Threads |-> {}]
    /\ sweep = "sleep"
    /\ rq = NoCall
    /\ anim = [t \in Threads |-> NoAnim]
    /\ ping = NoPing
    /\ target = InitialTargets
    /\ env = InitialEnv

----------------------------------------------------------------------------
(* Messages the user sends *)

Texts ==
    { <<"g","a","m">>,
      <<"g","a","m"," ","2">>,
      <<"g","a","m"," ","x","o'","a">>,
      <<"g","a","m"," ","dd","a'","o">>,
      <<"g","1"," ","dd","a'","o">>,
      <<"u","n","d","o">>,
      <<"/","c","a","n","c","e","l">>,
      <<"/","o","k">>,
      <<"1">>,
      <<"2">> }

----------------------------------------------------------------------------
(* telegram_webhook and handle_incoming_message *)

\* the thread goes on to the step at p
Goto(t, p) == pc' = [pc EXCEPT ![t] = p] /\ UNCHANGED txt

\* the thread returns; its frame (the text, the locals) is gone
Done(t) == /\ pc' = [pc EXCEPT ![t] = "done"]
           /\ loc' = [loc EXCEPT ![t].kw = <<>>, ![t].sel = <<>>, ![t].i = 0,
                                 ![t].arch = <<>>, ![t].made = <<>>,
                                 ![t].nfail = 0]
           /\ txt' = [txt EXCEPT ![t] = <<>>]

SetPending(c, e) == pending_confirm' = [pending_confirm EXCEPT ![c] = e]

\* start_waiting_animation, called by handler thread t: the thread animate
\* is started on the timer message, with AnimEdits turns of its loop to go
start_waiting_animation(t) ==
    anim' = [anim EXCEPT ![t] = [st |-> "loop", left |-> AnimEdits,
                                 msg |-> "timer", stopped |-> FALSE]]

\* stop_waiting_animation: the entry's expires field is set to 0; stopped
\* records that the animation of the entry's timer message was told to stop
stop_waiting_animation(c) ==
    IF pending_confirm[c].type # "none"
    THEN /\ SetPending(c, [pending_confirm[c] EXCEPT !.expires = ExpiresZero])
         /\ anim' = [a \in Threads |->
                       IF a = pending_confirm[c].by /\ anim[a].st # "none"
                       THEN [anim[a] EXCEPT !.stopped = TRUE]
                       ELSE anim[a]]
    ELSE UNCHANGED <<pending_confirm, anim>>

\* stop_waiting_animation followed by pending_confirm.pop(key, None)
StopAndPop(c) ==
    /\ SetPending(c, NoEntry)
    /\ anim' = [a \in Threads |->
                  IF a = pending_confirm[c].by /\ anim[a].st # "none"
                  THEN [anim[a] EXCEPT !.stopped = TRUE]
                  ELSE anim[a]]

\* telegram_webhook: one handler thread per message, c is the chat id
WebhookFrom(t, c, m) ==
    /\ pc[t] = "idle"
    /\ \A u \in Threads : u < t => pc[u] # "idle"
    /\ txt' = [txt EXCEPT ![t] = m]
    /\ pc' = [pc EXCEPT ![t] = "recv"]
    \* history: did the message arrive after the entry's deadline
    /\ loc' = [loc EXCEPT ![t].late = DeadlinePassed(pending_confirm[c]),
                          ![t].chat = c]
    /\ UNCHANGED <<pages, pending_confirm, undo_stack, did, sweep, rq, target, env, anim, ping>>

\* a message of the owner's chat
Webhook(t, m) == WebhookFrom(t, MainChat, m)

\* process_pending_selection_for_dao up to its first request to Telegram
DaoReply(t, c, raw) ==
    LET e == pending_confirm[c]
    IN IF e.type = "dao_choose"
       THEN LET indices == parse_user_selection_text(raw, Len(e.matches))
                inr     == SelectSeq(indices, LAMBDA i : 1 <= i /\ i <= Len(e.matches))
            IN IF indices = <<>>
               THEN Done(t) /\ UNCHANGED <<pending_confirm, anim>>
               ELSE /\ loc' = [loc EXCEPT ![t].sel = [k \in 1..Len(inr) |-> e.matches[inr[k]]],
                                          ![t].act = "dao_choose",
                                          ![t].ent = e.by]
                    /\ Goto(t, "dao_write")
                    /\ UNCHANGED <<pending_confirm, anim>>
       ELSE LET token == Lower(Strip(raw))
            IN IF token \in CancelWordsPending
               THEN Done(t) /\ StopAndPop(c)
               ELSE IF token \notin OkWords
               THEN Done(t) /\ UNCHANGED <<pending_confirm, anim>>
               ELSE IF e.targets = <<>>
               THEN Done(t) /\ StopAndPop(c)
               ELSE /\ stop_waiting_animation(c)
                    /\ loc' = [loc EXCEPT ![t].sel = e.targets, ![t].i = 1,
                                          ![t].act = "dao_confirm",
                                          ![t].ent = e.by]
                    /\ Goto(t, "dao_run")

\* handle_incoming_message with no pending entry: the command dispatch
Command(t, c, raw) ==
    LET low == Lower(raw)
        cmd == parse_user_command(raw)
    IN /\ UNCHANGED <<pending_confirm, anim>>
       /\ IF low \in CancelWordsHandler
          THEN Goto(t, "cancel_stop") /\ UNCHANGED loc
          ELSE IF EndsWith(low, <<" ","o","n">>)
          THEN /\ loc' = [loc EXCEPT ![t].kw = cmd.kw, ![t].act = "switch_on"]
               /\ Goto(t, "switch_on")
          ELSE IF EndsWith(low, <<" ","o","f","f">>)
          THEN /\ loc' = [loc EXCEPT ![t].kw = cmd.kw, ![t].act = "switch_off"]
               /\ Goto(t, "switch_off")
          ELSE IF cmd.action = "undo" /\ undo_stack[c] # <<>>
          \* the name undo_switch is not defined in app.py: NameError,
          \* caught by the handler's except clause
          THEN Done(t)
          ELSE /\ loc' = [loc EXCEPT ![t].kw = cmd.kw, ![t].i = cmd.count]
               /\ Goto(t, CASE cmd.action = "mark" /\ cmd.count > 0 -> "automark"
                            [] cmd.action = "undo"                  -> "undo_last"
                            [] cmd.action = "archive"               -> "archive_list"
                            [] cmd.action = "dao"                   -> "dao_cmd"
                            [] OTHER                                -> "mark_list")

\* handle_incoming_message up to its first blocking call
Handle(t) ==
    /\ pc[t] = "recv"
    /\ LET c   == ChatOf(t)
           raw == Strip(txt[t])
           e   == pending_confirm[c]
       IN IF ~ChatAllowed(c)
          THEN /\ pc' = [pc EXCEPT ![t] = "done"]
               /\ txt' = [txt EXCEPT ![t] = <<>>]
               /\ loc' = [loc EXCEPT ![t].reply = "refused"]
               /\ UNCHANGED <<pending_confirm, anim>>
          ELSE IF e.type \in {"dao_choose", "dao_confirm"}
          THEN DaoReply(t, c, raw)
          ELSE IF e.type # "none"
          THEN IF Lower(raw) \in CancelWordsHandler
               THEN Done(t) /\ SetPending(c, NoEntry) /\ UNCHANGED anim
               ELSE /\ Goto(t, "pps")
                    /\ UNCHANGED <<loc, pending_confirm, anim>>
          ELSE Command(t, c, raw)
    /\ UNCHANGED <<pages, undo_stack, did, sweep, rq, target, env, ping>>

----------------------------------------------------------------------------
(* Notion updates.  A request succeeds or fails (status below 500); the    *)
(* set S in an action is the set of pages whose request succeeded.         *)

SetChecked(ps, S, v) ==
    [i \in 1..Len(ps) |-> IF i \in S THEN [ps[i] EXCEPT !.checked = v] ELSE ps[i]]

SetArchived(ps, S, v) ==
    [i \in 1..Len(ps) |-> IF i \in S THEN [ps[i] EXCEPT !.archived = v] ELSE ps[i]]

FilterSeq(seq, S) == SelectSeq(seq, LAMBDA x : x \in S)

Record(t, op, S) == did' = [did EXCEPT ![t] = @ \cup {<<op, p>> : p \in S}]

Push(c, rec) == undo_stack' = [undo_stack EXCEPT ![c] = Append(@, rec)]

\* the whole list, whatever the indices
AllMatches(matches, indices) == matches

\* the pages at the given 1-based indices, out-of-range indices skipped
AtIndices(matches, indices) ==
    LET inr == SelectSeq(indices, LAMBDA i : 1 <= i /\ i <= Len(matches))
    IN [k \in 1..Len(inr) |-> matches[inr[k]]]

\* mark_pages_by_indices: a single index n > 1 stands for 1..n
ExpandIndices(indices, n) ==
    IF Len(indices) = 1 /\ indices[1] > 1
    THEN RangeSeq(1, Min2(indices[1], n))
    ELSE indices

\* the order in which the auto-mark command numbers the matches
AutoMarkOrder(ps, kw) ==
    StableSort(find_calendar_matches(ps, kw), KeyDateOrEmpty(ps))

\* the pages the auto-mark command '<kw> <count>' sends an update for
AutoMarkSelection(ps, kw, count) ==
    LET matches == AutoMarkOrder(ps, kw)
        indices == RangeSeq(1, Min2(count, Len(matches)))
    IN AtIndices(matches, ExpandIndices(indices, Len(matches)))

\* auto-mark: find_calendar_matches, mark_pages_by_indices
AutoMark(t) ==
    /\ pc[t] = "automark"
    /\ LET c      == ChatOf(t)
           chosen == AutoMarkSelection(pages, loc[t].kw, loc[t].i)
       IN \E S \in SUBSET Range(chosen) :
             /\ pages' = SetChecked(pages, S, TRUE)
             /\ Record(t, "check", S)
             /\ IF S # {}
                THEN Push(c, UndoRecord("mark", FilterSeq(chosen, S), <<>>, <<>>, 0))
                ELSE UNCHANGED undo_stack
    /\ Done(t)
    /\ UNCHANGED <<pending_confirm, sweep, rq, target, env, anim, ping>>

\* undo_last
UndoLast(t) ==
    /\ pc[t] = "undo_last"
    /\ LET c     == ChatOf(t)
           stack == undo_stack[c]
           log   == stack[Len(stack)]
       IN IF stack = <<>>
          THEN UNCHANGED <<pages, undo_stack, did>>
          ELSE /\ undo_stack' = [undo_stack EXCEPT ![c] = SubSeq(stack, 1, Len(stack) - 1)]
               /\ CASE log.action = "mark" ->
                         \E S \in SUBSET Range(log.pages) :
                             /\ pages' = SetChecked(pages, S, FALSE)
                             /\ Record(t, "uncheck", S)
                    [] log.action = "archive" ->
                         \E S \in SUBSET Range(log.pages) :
                             /\ pages' = SetArchived(pages, S, FALSE)
                             /\ Record(t, "unarchive", S)
                    [] log.action = "dao" ->
                         LET made == Range(log.created_pages)
                                       \cup (IF log.lai_page # 0 THEN {log.lai_page} ELSE {})
                         IN \E S \in SUBSET made, U \in SUBSET Range(log.archived_pages) :
                               /\ pages' = SetArchived(SetArchived(pages, S, TRUE), U, FALSE)
                               /\ did' = [did EXCEPT ![t] =
                                            @ \cup {<<"archive", p>> : p \in S}
                                              \cup {<<"unarchive", p>> : p \in U}]
                    [] OTHER -> UNCHANGED <<pages, did>>
    /\ Done(t)
    /\ UNCHANGED <<pending_confirm, sweep, rq, target, env, anim, ping>>

\* the '/cancel' branch taken when no entry was found: stop_waiting_animation
CancelStop(t) ==
    /\ pc[t] = "cancel_stop"
    /\ stop_waiting_animation(ChatOf(t))
    /\ Done(t)
    /\ UNCHANGED <<pages, undo_stack, did, sweep, rq, target, env, ping>>

\* '<key> xoa': list the matches and store the archive_select entry
ArchiveList(t) ==
    /\ pc[t] = "archive_list"
    /\ LET c       == ChatOf(t)
           matches == archive_matches(pages, loc[t].kw)
       IN IF matches = <<>>
          THEN UNCHANGED <<pending_confirm, anim>>
          ELSE /\ SetPending(c, Entry("archive_select", matches, <<>>, t))
               /\ start_waiting_animation(t)
    /\ Done(t)
    /\ UNCHANGED <<pages, undo_stack, did, sweep, rq, target, env, ping>>

\* '<key> dao': several targets -> dao_choose, one target -> dao_confirm
DaoCmd(t) ==
    /\ pc[t] = "dao_cmd"
    /\ LET c       == ChatOf(t)
           matches == find_target_matches(loc[t].kw)
       IN IF matches = <<>>
          THEN UNCHANGED <<pending_confirm, anim>>
          ELSE /\ IF Len(matches) > 1
                  THEN SetPending(c, Entry("dao_choose", matches, <<>>, t))
                  ELSE SetPending(c, Entry("dao_confirm", <<>>, matches, t))
               /\ start_waiting_animation(t)
    /\ Done(t)
    /\ UNCHANGED <<pages, undo_stack, did, sweep, rq, target, env, ping>>

\* '<key>': list the unchecked matches and store the mark entry
MarkList(t) ==
    /\ pc[t] = "mark_list"
    /\ LET c       == ChatOf(t)
           matches == find_calendar_matches(pages, loc[t].kw)
           counts  == count_checked_unchecked(pages, loc[t].kw)
       IN IF matches = <<>> \/ counts[2] = 0
          THEN UNCHANGED <<pending_confirm, anim>>
          ELSE /\ SetPending(c, Entry("mark", matches, <<>>, t))
               /\ start_waiting_animation(t)
    /\ Done(t)
    /\ UNCHANGED <<pages, undo_stack, did, sweep, rq, target, env, ping>>

----------------------------------------------------------------------------
(* Replies to a pending entry *)

\* process_pending_selection up to its first request to Telegram
Pps(t) ==
    /\ pc[t] = "pps"
    /\ LET c       == ChatOf(t)
           data    == pending_confirm[c]
           raw     == Lower(Strip(txt[t]))
           indices == parse_user_selection_text(raw, Len(data.matches))
           sel     == AtIndices(data.matches, indices)
       IN IF data.type = "none"
          THEN Done(t) /\ UNCHANGED pending_confirm
          ELSE IF raw \in CancelWordsPending \/ data.matches = <<>>
          THEN Done(t) /\ SetPending(c, NoEntry)
          ELSE IF indices = <<>>
          THEN Done(t) /\ UNCHANGED pending_confirm
          ELSE IF data.type = "archive_select" /\ sel = <<>>
          THEN Done(t) /\ SetPending(c, NoEntry)
          ELSE IF data.type \in {"archive_select", "mark"}
          THEN /\ loc' = [loc EXCEPT ![t].sel = sel, ![t].act = data.type,
                                     ![t].ent = data.by]
               /\ Goto(t, "pps_run")
               /\ UNCHANGED pending_confirm
          ELSE Done(t) /\ SetPending(c, NoEntry)
    /\ UNCHANGED <<pages, undo_stack, did, sweep, rq, target, env, anim, ping>>

\* process_pending_selection: the update loop and the removal of the entry
PpsRun(t) ==
    /\ pc[t] = "pps_run"
    /\ LET c == ChatOf(t)
       IN \E S \in SUBSET Range(loc[t].sel) :
             IF loc[t].act = "archive_select"
             THEN /\ pages' = SetArchived(pages, S, TRUE)
                  /\ Record(t, "archive", S)
                  /\ IF S # {}
                     THEN Push(c, UndoRecord("archive", FilterSeq(loc[t].sel, S),
                                             <<>>, <<>>, 0))
                     ELSE UNCHANGED undo_stack
             ELSE /\ pages' = SetChecked(pages, S, TRUE)
                  /\ Record(t, "check", S)
                  /\ UNCHANGED undo_stack
    /\ SetPending(ChatOf(t), NoEntry)
    /\ Done(t)
    /\ UNCHANGED <<sweep, rq, target, env, anim, ping>>

\* dao_choose: after the preview messages, store the dao_confirm entry
DaoWrite(t) ==
    /\ pc[t] = "dao_write"
    /\ SetPending(ChatOf(t), Entry("dao_confirm", <<>>, loc[t].sel, t))
    /\ start_waiting_animation(t)
    /\ Done(t)
    /\ UNCHANGED <<pages, undo_stack, did, sweep, rq, target, env, ping>>

\* the number of days the pre-take amount pays for, whatever 'ngay truoc' says
TakeDaysFromAmount(props) ==
    IF props.g_ngay # 0
    THEN (props.truoc + props.g_ngay - 1) \div props.g_ngay
    ELSE 0

\* the number of day pages dao_create_pages_from_props creates
TakeDays(props) ==
    IF props.ngay_truoc # 0 THEN props.ngay_truoc
    ELSE IF props.g_ngay # 0
         THEN (props.truoc + props.g_ngay - 1) \div props.g_ngay
         ELSE 0

\* calendar pages whose Lich G relation points to the target
RelatedDays(ps, pid) == SelectSeq(CalQuery(ps), LAMBDA i : ps[i].owner = pid)

\* calendar pages whose name contains the target's title
NamedDays(ps, pid) ==
    SelectSeq(CalQuery(ps),
        LAMBDA i : Contains(Lower(PageTitle(ps, i)),
                            Lower(Strip(TargetProps(pid).title))))

\* ids of the day pages created for the successful requests C, in order
NewDayIds(ps, C) == [k \in 1..Cardinality(C) |-> Len(ps) + k]

NewDays(pid, C) ==
    LET days == SortedSeqOfSet(C)
    IN [k \in 1..Len(days) |-> Page("cal", pid, Today + days[k], TRUE)]

\* the pages whose archival the loop of the current target asks for:
\* children (no pre-take) or matched (dao_create_pages_from_props)
OldDays(ps, pid, props) ==
    IF props.truoc = 0 THEN RelatedDays(ps, pid) ELSE NamedDays(ps, pid)

\* dao_confirm, OK: one target of the loop, up to the end of the loop that
\* archives its old day pages
DaoRun(t) ==
    /\ pc[t] = "dao_run"
    /\ loc[t].i <= Len(loc[t].sel)
    /\ LET pid   == loc[t].sel[loc[t].i]
           props == TargetProps(pid)
       IN IF props.truoc # 0 /\ TakeDays(props) <= 0
          THEN /\ loc' = [loc EXCEPT ![t].i = @ + 1]
               /\ UNCHANGED <<pages, did, pc>>
          ELSE LET old == OldDays(pages, pid, props)
               IN \E S \in SUBSET Range(old) :
                     /\ pages' = SetArchived(pages, S, TRUE)
                     /\ Record(t, "archive", S)
                     /\ loc' = [loc EXCEPT ![t].arch = old, ![t].made = <<>>]
                     /\ pc' = [pc EXCEPT ![t] = IF props.truoc = 0 THEN "dao_lai"
                                                ELSE "dao_days"]
    /\ UNCHANGED <<pending_confirm, undo_stack, txt, sweep, rq, target, env, anim, ping>>

\* dao_create_pages_from_props: the loop that creates the day pages
DaoDays(t) ==
    /\ pc[t] = "dao_days"
    /\ LET pid   == loc[t].sel[loc[t].i]
           props == TargetProps(pid)
       IN \E C \in SUBSET (1..TakeDays(props)) :
             /\ pages' = pages \o NewDays(pid, C)
             /\ Record(t, "create", Range(NewDayIds(pages, C)))
             /\ loc' = [loc EXCEPT ![t].made = NewDayIds(pages, C),
                                   ![t].nfail = TakeDays(props) - Cardinality(C)]
    /\ Goto(t, "dao_lai")
    /\ UNCHANGED <<pending_confirm, undo_stack, sweep, rq, target, env, anim, ping>>

\* the Lai page of the current target, then its undo record
DaoLai(t) ==
    /\ pc[t] = "dao_lai"
    /\ LET c     == ChatOf(t)
           pid   == loc[t].sel[loc[t].i]
           props == TargetProps(pid)
           wantLai == LA_NOTION_DATABASE_ID /\ props.lai > 0
       IN \E laiOk \in BOOLEAN :
             LET mk == wantLai /\ laiOk
                 lai_page_id == IF mk THEN Len(pages) + 1 ELSE 0
             IN /\ pages' = IF mk THEN Append(pages, Page("lai", pid, Today, FALSE))
                                  ELSE pages
                /\ Record(t, "create", IF mk THEN {lai_page_id} ELSE {})
                /\ Push(c, UndoRecord("dao", <<>>,
                                      IF props.truoc = 0 THEN <<>> ELSE loc[t].arch,
                                      loc[t].made, lai_page_id))
    /\ loc' = [loc EXCEPT ![t].i = @ + 1, ![t].arch = <<>>, ![t].made = <<>>,
                          ![t].nfail = 0]
    /\ Goto(t, "dao_run")
    /\ UNCHANGED <<pending_confirm, sweep, rq, target, env, anim, ping>>

\* dao_confirm, OK: the report and the removal of the entry
DaoFinish(t) ==
    /\ pc[t] = "dao_run"
    /\ loc[t].i > Len(loc[t].sel)
    /\ SetPending(ChatOf(t), NoEntry)
    /\ Done(t)
    /\ UNCHANGED <<pages, undo_stack, did, sweep, rq, target, env, anim, ping>>

----------------------------------------------------------------------------
(* sweep_pending_expirations *)

\* one sleep period of the sweep thread elapses
Tick ==
    /\ sweep = "sleep"
    /\ sweep' = "check"
    /\ pending_confirm' =
          [c \in Chats |->
              IF pending_confirm[c].type # "none" /\ pending_confirm[c].expires >= 0
              THEN [pending_confirm[c] EXCEPT !.expires = @ - 1]
              ELSE pending_confirm[c]]
    /\ UNCHANGED <<pages, undo_stack, pc, txt, loc, did, rq, target, env, anim, ping>>

\* the test of an entry; an expired one is announced to the chat first
SweepCheck ==
    /\ sweep = "check"
    /\ LET item == pending_confirm["c1"]
       IN sweep' = IF item.type # "none" /\ item.expires # ExpiresZero
                        /\ item.expires < 0
                   THEN "del" ELSE "sleep"
    /\ UNCHANGED <<pages, pending_confirm, undo_stack, pc, txt, loc, did, rq, target, env, anim, ping>>

\* del pending_confirm[k]
SweepDel ==
    /\ sweep = "del"
    /\ sweep' = "sleep"
    /\ SetPending("c1", NoEntry)
    /\ UNCHANGED <<pages, undo_stack, pc, txt, loc, did, rq, target, env, anim, ping>>

----------------------------------------------------------------------------

Next ==
    \/ \E t \in Threads, m \in Texts : Webhook(t, m)
    \/ \E t \in Threads : Handle(t)
    \/ \E t \in Threads : AutoMark(t)
    \/ \E t \in Threads : UndoLast(t)
    \/ \E t \in Threads : CancelStop(t)
    \/ \E t \in Threads : ArchiveList(t)
    \/ \E t \in Threads : DaoCmd(t)
    \/ \E t \in Threads : MarkList(t)
    \/ \E t \in Threads : Pps(t)
    \/ \E t \in Threads : PpsRun(t)
    \/ \E t \in Threads : DaoWrite(t)
    \/ \E t \in Threads : DaoRun(t)
    \/ \E t \in Threads : DaoDays(t)
    \/ \E t \in Threads : DaoLai(t)
    \/ \E t \in Threads : DaoFinish(t)
    \/ Tick
    \/ SweepCheck
    \/ SweepDel

Spec == Init /\ [][Next]_vars

\* the user waits for the bot to finish before sending the next message
Quiet == \A u \in Threads : pc[u] \in {"idle", "done"}

WebhookSeq(t, m) == Quiet /\ Webhook(t, m)

NextSeq ==
    \/ \E t \in Threads, m \in Texts : WebhookSeq(t, m)
    \/ \E t \in Threads : Handle(t)
    \/ \E t \in Threads : AutoMark(t)
    \/ \E t \in Threads : UndoLast(t)
    \/ \E t \in Threads : CancelStop(t)
    \/ \E t \in Threads : ArchiveList(t)
    \/ \E t \in Threads : DaoCmd(t)
    \/ \E t \in Threads : MarkList(t)
    \/ \E t \in Threads : Pps(t)
    \/ \E t \in Threads : PpsRun(t)
    \/ \E t \in Threads : DaoWrite(t)
    \/ \E t \in Threads : DaoRun(t)
    \/ \E t \in Threads : DaoDays(t)
    \/ \E t \in Threads : DaoLai(t)
    \/ \E t \in Threads : DaoFinish(t)
    \/ Tick
    \/ SweepCheck
    \/ SweepDel

SeqSpec == Init /\ [][NextSeq]_vars

\* messages sent in the runs in which progress is checked
LiveMsgs == 2

WebhookLive(t, m) == t <= LiveMsgs /\ Webhook(t, m)

\* one step of the handler thread t, whichever it is
ThreadStep(t) ==
    \/ Handle(t)
    \/ AutoMark(t)
    \/ UndoLast(t)
    \/ CancelStop(t)
    \/ ArchiveList(t)
    \/ DaoCmd(t)
    \/ MarkList(t)
    \/ Pps(t)
    \/ PpsRun(t)
    \/ DaoWrite(t)
    \/ DaoRun(t)
    \/ DaoDays(t)
    \/ DaoLai(t)
    \/ DaoFinish(t)

NextLive ==
    \/ \E t \in Threads, m \in Texts : WebhookLive(t, m)
    \/ \E t \in Threads : ThreadStep(t)
    \/ Tick
    \/ SweepCheck
    \/ SweepDel

\* A handler thread is scheduled until it returns.  ThreadStep(t) is enabled
\* exactly when pc[t] is neither "idle" nor "done" and a thread takes finitely
\* many steps, so this is weak fairness of ThreadStep(t).
ThreadFair(t) == []<>(pc[t] \in {"idle", "done"})

\* every started thread runs to its end, time passes and the sweep thread
\* keeps running; the user is not bound to send anything
FairSpec ==
    /\ Init
    /\ [][NextLive]_vars
    /\ \A t \in Threads : ThreadFair(t)
    /\ WF_vars(Tick)
    /\ WF_vars(SweepCheck)
    /\ WF_vars(SweepDel)

----------------------------------------------------------------------------
(* _notion_post and _notion_patch: one call, followed request by request *)

\* the default of the parameter attempts
DefaultAttempts == 3

\* what a request can come to: a success status with a JSON body, a success
\* status whose body r.json() cannot parse, a failure status below 500, a
\* status of 500 or more, an exception raised by requests
Outcomes == {"ok", "ok_badjson", "client_err", "server_err", "exception"}

\* the call _notion_post(...) or _notion_patch(...) is entered
NotionCall(fn, a) ==
    /\ rq = NoCall
    /\ rq' = [fn |-> fn, attempts |-> a, i |-> 0, log |-> <<>>,
              last_exc |-> FALSE, result |-> "running"]
    /\ UNCHANGED <<pages, pending_confirm, undo_stack, pc, txt, loc, did, sweep,
                   target, env, anim, ping>>

\* one pass of the loop of _notion_post; r.json() is inside the try block
TryPost(o) ==
    /\ rq.fn = "post" /\ rq.result = "running" /\ rq.i < rq.attempts
    /\ rq' = [rq EXCEPT
                !.i = @ + 1,
                !.log = Append(@, o),
                !.last_exc = @ \/ o \in {"ok_badjson", "exception"},
                !.result = CASE o = "ok"         -> "true"
                             [] o = "client_err" -> "false"
                             [] OTHER            -> "running"]
    /\ UNCHANGED <<pages, pending_confirm, undo_stack, pc, txt, loc, did, sweep,
                   target, env, anim, ping>>

\* one pass of the loop of _notion_patch; r.json() has its own try block
TryPatch(o) ==
    /\ rq.fn = "patch" /\ rq.result = "running" /\ rq.i < rq.attempts
    /\ rq' = [rq EXCEPT
                !.i = @ + 1,
                !.log = Append(@, o),
                !.last_exc = @ \/ o = "exception",
                !.result = CASE o \in {"ok", "ok_badjson"} -> "true"
                             [] o = "client_err"           -> "false"
                             [] OTHER                      -> "running"]
    /\ UNCHANGED <<pages, pending_confirm, undo_stack, pc, txt, loc, did, sweep,
                   target, env, anim, ping>>

\* after the loop: return False, str(last_exc).  The name last_exc is bound
\* by an except clause only: with none taken, the read raises
\* UnboundLocalError out of the function.
LoopEnd ==
    /\ rq.result = "running" /\ rq.i = rq.attempts
    /\ rq' = [rq EXCEPT !.result = IF rq.last_exc THEN "false" ELSE "raised"]
    /\ UNCHANGED <<pages, pending_confirm, undo_stack, pc, txt, loc, did, sweep,
                   target, env, anim, ping>>

NextRetry ==
    \/ \E fn \in {"post", "patch"}, a \in 1..DefaultAttempts : NotionCall(fn, a)
    \/ \E o \in Outcomes : TryPost(o)
    \/ \E o \in Outcomes : TryPatch(o)
    \/ LoopEnd

RetrySpec == Init /\ [][NextRetry]_vars

----------------------------------------------------------------------------
(* The auto-mark command over every calendar *)

\* dates a calendar page can carry, 0 for a page without a date
MaxDate == 2

InitMark ==
    /\ \E d1, d2, d3 \in 0..MaxDate, c1, c2, c3 \in BOOLEAN :
          pages = << Page("cal", 11, d1, c1), Page("cal", 11, d2, c2),
                     Page("cal", 12, d3, c3) >>
    /\ pending_confirm = [c \in Chats |-> NoEntry]
    /\ undo_stack = [c \in Chats |-> <<>>]
    /\ pc = [t \in Threads |-> "idle"]
    /\ txt = [t \in Threads |-> <<>>]
    /\ loc = [t \in Threads |-> NoLoc]
    /\ did = [t \in Threads |-> {}]
    /\ sweep = "sleep"
    /\ rq = NoCall
    /\ anim = [t \in Threads |-> NoAnim]
    /\ ping = NoPing
    /\ target = InitialTargets
    /\ env = InitialEnv

MarkTexts ==
    { <<"g","a","m"," ","1">>,
      <<"g","a","m"," ","2">>,
      <<"g","a","m"," ","3">>,
      <<"g","1"," ","2">> }

WebhookMark(t, m) == Quiet /\ Webhook(t, m)

NextMark ==
    \/ \E t \in Threads, m \in MarkTexts : WebhookMark(t, m)
    \/ \E t \in Threads : Handle(t)
    \/ \E t \in Threads : AutoMark(t)

MarkSpec == InitMark /\ [][NextMark]_vars

----------------------------------------------------------------------------
(* Undo after an auto-mark *)

\* C1: after an auto-mark has checked pages and pushed its record, an 'undo'
\* sent while no operation is pending unchecks exactly the pages of that
\* record and removes the record from the chat's undo stack.
C1_UndoReversesAutoMark ==
    [][\A t \in Threads :
         LET c     == ChatOf(t)
             stack == undo_stack[c]
             top   == stack[Len(stack)]
         IN (/\ pc[t] \in {"recv", "undo_last"}
             /\ pc'[t] = "done"
             /\ parse_user_command(Strip(txt[t])).action = "undo"
             /\ pending_confirm[c].type = "none"
             /\ stack # <<>>
             /\ top.action = "mark")
            => /\ undo_stack'[c] = SubSeq(stack, 1, Len(stack) - 1)
               /\ \A p \in Range(top.pages) : ~pages'[p].checked]_vars

----------------------------------------------------------------------------
(* The pending-confirmation slot *)

\* C2: a chat's entry always has one of the four types, and the only change
\* of type an existing entry undergoes is dao_choose -> dao_confirm; every
\* other step on an entry removes it.
C2_OnlyDaoChooseChangesType ==
    [][\A c \in Chats :
         LET a == pending_confirm[c].type
             b == pending_confirm'[c].type
         IN /\ b \in {"none", "mark", "archive_select", "dao_choose", "dao_confirm"}
            /\ (a # "none" /\ b # "none" /\ a # b)
                  => (a = "dao_choose" /\ b = "dao_confirm")]_vars

\* C3: a command stores its entry only in an empty slot, and a message that
\* finds an entry is consumed as a reply to it and starts no command, so an
\* entry is never overwritten by another command.
C3_OnePendingPerChat ==
    [][\A t \in Threads :
         LET c == ChatOf(t)
         IN /\ (/\ pc[t] \in {"mark_list", "archive_list", "dao_cmd"}
                /\ pc'[t] = "done"
                /\ pending_confirm'[c] # pending_confirm[c])
               => pending_confirm[c].type = "none"
            /\ (pc[t] = "recv" /\ pending_confirm[c].type # "none")
               => pc'[t] \notin {"automark", "undo_last", "archive_list",
                                 "dao_cmd", "mark_list", "cancel_stop"}]_vars

\* C4: whatever the type of the pending entry, a '/cancel' message removes
\* the entry and changes nothing in Notion.
C4_CancelRemovesEntry ==
    [][\A t \in Threads :
         LET c == ChatOf(t)
         IN (/\ pc[t] = "recv"
             /\ pc'[t] # "recv"
             /\ Lower(Strip(txt[t])) = <<"/","c","a","n","c","e","l">>
             /\ pending_confirm[c].type # "none")
            => /\ pending_confirm'[c].type = "none"
               /\ pc'[t] = "done"
               /\ pages' = pages]_vars

\* C5: a reply that arrives after the entry's confirmation deadline has
\* passed causes no Notion mutation.
C5_LateReplyMutatesNothing ==
    \A t \in Threads : loc[t].late => did[t] = {}

\* C6: every pending entry is eventually removed, by its completion, by its
\* cancellation or by the sweep thread, an entry whose expires field was set
\* to 0 by stop_waiting_animation included.
C6_EntryEventuallyRemoved ==
    \A c \in Chats :
        (pending_confirm[c].type # "none") ~> (pending_confirm[c].type = "none")

\* C9: a mark or archive_select entry is processed by at most one thread:
\* of two replies to the same entry, only one performs Notion updates.
C9_EntryProcessedOnce ==
    \A t, u \in Threads :
        (/\ t # u
         /\ loc[t].ent # 0
         /\ loc[t].ent = loc[u].ent
         /\ loc[t].act \in {"mark", "archive_select"}
         /\ loc[u].act \in {"mark", "archive_select"})
        => (did[t] = {} \/ did[u] = {})

----------------------------------------------------------------------------
(* The Notion wrappers *)

\* C7: a call sends at most 'attempts' requests; a further request follows
\* only a status of 500 or more or a raised exception; a success status or
\* a failure status below 500 ends the call at once.
C7_RetryOnlyAfterServerError ==
    /\ Len(rq.log) <= rq.attempts
    /\ \A k \in 1..(Len(rq.log) - 1) :
          rq.log[k] \notin {"ok", "ok_badjson", "client_err"}

\* C8: a call always returns a pair (ok, data) and raises nothing; when
\* every attempt got a status of 500 or more it returns (False, error).
C8_WrapperNeverRaises ==
    /\ rq.result # "raised"
    /\ (/\ rq.result \notin {"none", "running"}
        /\ \A k \in 1..Len(rq.log) : rq.log[k] = "server_err")
       => rq.result = "false"

----------------------------------------------------------------------------
(* Auto-mark *)

\* C10: with m matching unchecked pages, '<key> <n>' checks only matching
\* unchecked pages, at most min(n, m) of them, and when all min(n, m)
\* updates succeed they are the ones with the earliest dates, a page without
\* a date being chosen only after every dated page.
C10_AutoMarkEarliestFirst ==
    [][\A t \in Threads :
         (pc[t] = "automark" /\ pc'[t] = "done") =>
            LET M == {i \in Range(CalQuery(pages)) :
                         /\ TitleMatches(loc[t].kw, PageTitle(pages, i))
                         /\ ~pages[i].checked}
                n == loc[t].i
                D == {i \in 1..Len(pages) : <<"check", i>> \in did'[t]}
            IN /\ D \subseteq M
               /\ Cardinality(D) <= Min2(n, Cardinality(M))
               /\ Cardinality(D) = Min2(n, Cardinality(M))
                    => \A p \in D, q \in M \ D :
                          ~(/\ pages[q].date # 0
                            /\ (pages[p].date = 0 \/ pages[q].date < pages[p].date))]_vars

----------------------------------------------------------------------------
(* The dao workflow *)

\* C11 (as stated): the dao workflow archives or creates a page only for an
\* OK token sent while the entry has type dao_confirm; the command and a
\* dao_choose selection mutate nothing; any other reply in dao_confirm
\* leaves Notion and the pending entry unchanged.
C11_OtherReplyChangesNothing ==
    [][\A t \in Threads :
         LET c     == ChatOf(t)
             e     == pending_confirm[c]
             token == Lower(Strip(txt[t]))
             ok    == { <<"o","k">>, <<"/","o","k">>, <<"y","e","s">>,
                        <<"dd","o^`","n","g"," ","y'">>, <<"d","o","n","g"," ","y">> }
         IN (/\ pc[t] = "recv" /\ pc'[t] # "recv"
             /\ e.type = "dao_confirm"
             /\ token \notin ok)
            => (pages' = pages /\ pending_confirm' = pending_confirm)]_vars

\* C11 (amended): as stated, except that a cancel token in dao_confirm
\* removes the entry (and mutates nothing); a reply that is neither an OK
\* token nor a cancel token leaves Notion and the entry unchanged.
C11_DaoMutatesOnlyAfterOk ==
    [][\A t \in Threads :
         LET c      == ChatOf(t)
             e      == pending_confirm[c]
             token  == Lower(Strip(txt[t]))
             ok     == { <<"o","k">>, <<"/","o","k">>, <<"y","e","s">>,
                         <<"dd","o^`","n","g"," ","y'">>, <<"d","o","n","g"," ","y">> }
             cancel == { <<"/","c","a","n","c","e","l">>, <<"c","a","n","c","e","l">>,
                         <<"h","u?","y">>, <<"h","u","y?">>, <<"h","u","y">> }
         IN /\ (pc[t] \in {"dao_cmd", "dao_write"} /\ pc'[t] # pc[t])
                  => (pages' = pages /\ did' = did)
            /\ (/\ pc[t] = "recv" /\ pc'[t] # "recv"
                /\ e.type \in {"dao_choose", "dao_confirm"})
                  => /\ pages' = pages /\ did' = did
                     /\ pc'[t] = "dao_run" => (e.type = "dao_confirm" /\ token \in ok)
                     /\ (e.type = "dao_confirm" /\ token \notin ok \cup cancel)
                           => pending_confirm' = pending_confirm
                     /\ (e.type = "dao_confirm" /\ token \in cancel)
                           => pending_confirm'[c].type = "none"
            /\ (pc[t] = "dao_run" /\ did'[t] # did[t])
                  => (token \in ok /\ loc[t].act = "dao_confirm")]_vars

\* an OK in dao_confirm did archive or create a page
C11_Witness ==
    \E t \in Threads : loc[t].act = "dao_confirm" /\ did[t] # {}

\* C12: a target whose preview returns can = FALSE is never rolled over: no
\* dao_confirm entry contains it, none of its calendar pages is archived by
\* the dao workflow and no page is created for it.
C12_RedTargetNeverRolledOver ==
    /\ \A c \in Chats :
          pending_confirm[c].type = "dao_confirm" =>
             \A k \in 1..Len(pending_confirm[c].targets) :
                dao_preview_text_from_props(
                    TargetProps(pending_confirm[c].targets[k])).can
    /\ \A t \in Threads :
          loc[t].act = "dao_confirm" =>
             \A r \in did[t] :
                dao_preview_text_from_props(TargetProps(pages[r[2]].owner)).can

----------------------------------------------------------------------------
(* The dao workflow over the properties a target can have *)

\* the values the properties of target 11 and the Lai database id are drawn
\* from: the Dao formula shows the green mark, the red mark or neither
DaoMarks == {"green", "red", "none"}

TruocAmount == 20

NgayTruocDays == 3

GNgayAmount == 10

LaiAmount == 5

InitDao ==
    /\ \E dao \in DaoMarks, truoc \in {0, TruocAmount},
          ngay_truoc \in {0, NgayTruocDays}, g_ngay \in {0, GNgayAmount},
          lai \in {0, LaiAmount} :
          target = [InitialTargets EXCEPT ![11] =
                       [InitialTargets[11] EXCEPT
                           !.dao = dao, !.truoc = truoc,
                           !.ngay_truoc = ngay_truoc, !.g_ngay = g_ngay,
                           !.lai = lai]]
    /\ \E la \in BOOLEAN : env = [InitialEnv EXCEPT !.LA_NOTION_DATABASE_ID = la]
    /\ pages = InitialPages
    /\ pending_confirm = [c \in Chats |-> NoEntry]
    /\ undo_stack = [c \in Chats |-> <<>>]
    /\ pc = [t \in Threads |-> "idle"]
    /\ txt = [t \in Threads |-> <<>>]
    /\ loc = [t \in Threads |-> NoLoc]
    /\ did = [t \in Threads |-> {}]
    /\ sweep = "sleep"
    /\ rq = NoCall
    /\ anim = [t \in Threads |-> NoAnim]
    /\ ping = NoPing

DaoTexts ==
    { <<"g","a","m"," ","dd","a'","o">>,
      <<"g","1"," ","dd","a'","o">>,
      <<"/","o","k">>,
      <<"1">>,
      <<"2">> }

WebhookDao(t, m) == Quiet /\ Webhook(t, m)

NextDao ==
    \/ \E t \in Threads, m \in DaoTexts : WebhookDao(t, m)
    \/ \E t \in Threads : Handle(t)
    \/ \E t \in Threads : DaoCmd(t)
    \/ \E t \in Threads : DaoWrite(t)
    \/ \E t \in Threads : DaoRun(t)
    \/ \E t \in Threads : DaoDays(t)
    \/ \E t \in Threads : DaoLai(t)
    \/ \E t \in Threads : DaoFinish(t)

DaoSpec == InitDao /\ [][NextDao]_vars

\* the target whose pages thread t is rolling over
DaoTarget(t) == loc[t].sel[loc[t].i]

\* the pages a step has added to Notion
NewPageIds == (Len(pages) + 1)..Len(pages')

\* C13, amended: a confirmed dao of a target with pre-take (truoc # 0) and
\* N = ngay truoc > 0 goes on, after the loop that archives the target's old
\* day pages (every old day page is archived, or was sent an archive request
\* that Notion refused), to create calendar pages that are checked, related
\* to the target and dated on distinct days of tomorrow .. tomorrow + N - 1,
\* one for each of the N requests that succeeds: exactly N pages on exactly
\* these N dates when every request succeeds. No other step of the dao creates
\* a calendar page.
C13_PreTakeCreatesNDays ==
    [][\A t \in Threads :
          /\ (pc[t] = "dao_run" /\ pc'[t] = "dao_run" /\ loc'[t].i # loc[t].i)
                => ~(TargetProps(DaoTarget(t)).truoc # 0
                     /\ TargetProps(DaoTarget(t)).ngay_truoc > 0)
          /\ (pc[t] \in {"dao_run", "dao_lai"} /\ pc'[t] # "dao_days")
                => \A q \in NewPageIds : pages'[q].db # "cal"
          /\ (pc[t] = "dao_days" /\ pc'[t] # "dao_days")
                => LET pid   == DaoTarget(t)
                       props == TargetProps(pid)
                       N     == props.ngay_truoc
                   IN (props.truoc # 0 /\ N > 0) =>
                        /\ SubSeq(pages', 1, Len(pages)) = pages
                        /\ \A q \in Range(NamedDays(pages, pid)) :
                              q \in Range(loc[t].arch)
                        /\ \A q \in NewPageIds :
                              /\ pages'[q].db = "cal"
                              /\ pages'[q].owner = pid
                              /\ pages'[q].checked
                              /\ ~pages'[q].archived
                              /\ pages'[q].date \in (Today + 1)..(Today + N)
                        /\ \A q1, q2 \in NewPageIds :
                              q1 # q2 => pages'[q1].date # pages'[q2].date
                        /\ Cardinality(NewPageIds) + loc'[t].nfail = N
                        /\ loc'[t].nfail = 0 =>
                              {pages'[q].date : q \in NewPageIds}
                                 = (Today + 1)..(Today + N)]_vars

\* C13, as stated for the order: when the day pages of such a target are
\* created, its old day pages have been archived.
C13_CreatedOnlyAfterArchived ==
    [][\A t \in Threads :
          (/\ pc[t] = "dao_days" /\ pc'[t] # "dao_days"
           /\ TargetProps(DaoTarget(t)).truoc # 0
           /\ TargetProps(DaoTarget(t)).ngay_truoc > 0
           /\ NewPageIds # {})
             => \A q \in Range(loc[t].arch) : pages[q].archived]_vars

C13_Witness ==
    \E t \in Threads :
       /\ pc[t] = "dao_lai"
       /\ TargetProps(DaoTarget(t)).truoc # 0
       /\ TargetProps(DaoTarget(t)).ngay_truoc = NgayTruocDays
       /\ loc[t].nfail = 0
       /\ Len(loc[t].made) = NgayTruocDays
       /\ \A q \in Range(loc[t].arch) : pages[q].archived
       /\ loc[t].arch # <<>>

\* C14: when the preview of a target says no pre-take ('ngay truoc' absent
\* or <= 0), the confirmed dao creates no calendar day page for that target.
C14_NoTakePreviewCreatesNoDay ==
    [][\A t \in Threads :
          (/\ pc[t] \in {"dao_run", "dao_days", "dao_lai"}
           /\ loc[t].i <= Len(loc[t].sel)
           /\ (pc'[t] # pc[t] \/ loc'[t] # loc[t])
           /\ dao_preview_text_from_props(TargetProps(DaoTarget(t))).says = "no_take"
           /\ TargetProps(DaoTarget(t)).ngay_truoc <= 0)
             => \A q \in NewPageIds : pages'[q].db # "cal"]_vars

\* the Lai pages a step has added to Notion
NewLaiIds == {q \in NewPageIds : pages'[q].db = "lai"}

C16_DaoRecordComplete ==
    [][\A t \in Threads :
          (pc[t] = "dao_lai" /\ pc'[t] = "dao_run")
             => LET c   == ChatOf(t)
                    pid == DaoTarget(t)
                    rec == undo_stack'[c][Len(undo_stack'[c])]
                IN /\ Len(undo_stack'[c]) = Len(undo_stack[c]) + 1
                   /\ rec.action = "dao"
                   /\ \A r \in did'[t] :
                         pages'[r[2]].owner = pid =>
                            /\ r[1] = "archive"
                                  => r[2] \in Range(rec.archived_pages)
                            /\ r[1] = "create"
                                  => (r[2] \in Range(rec.created_pages)
                                      \/ r[2] = rec.lai_page)]_vars

----------------------------------------------------------------------------
(* Archive by selection *)

\* the listed pages a reply selects: the pages of the entry's list at the
\* indices of parse_user_selection_text(reply) that lie within the list
SelectedOf(e, raw) ==
    { e.matches[i] : i \in { j \in Range(parse_user_selection_text(raw, Len(e.matches))) :
                               1 <= j /\ j <= Len(e.matches) } }

\* the pages whose archive request, sent by thread t in a step, Notion has
\* accepted
ArchivedBy(t) == { r[2] : r \in { x \in did'[t] \ did[t] : x[1] = "archive" } }

\* C17, as stated: the reply to an archive_select entry archives exactly the
\* listed pages it selects.
C17_ArchivesExactlySelected ==
    [][\A t \in Threads :
          (pc[t] = "pps_run" /\ pc'[t] # "pps_run" /\ loc[t].act = "archive_select")
             => /\ ArchivedBy(t) = Range(loc[t].sel)
                /\ \A q \in Range(loc[t].sel) : pages'[q].archived]_vars

\* C17, amended: the '<key> xoa' command and the reading of the reply archive
\* nothing; the reply to an archive_select entry sends archive requests for
\* exactly the listed pages it selects, the pages archived are those of them
\* whose request Notion accepts, no other page changes, and one 'archive'
\* undo record holding exactly the ids archived is pushed when at least one
\* page was archived, none otherwise.
C17_ArchivesAmongSelected ==
    [][\A t \in Threads :
          LET c == ChatOf(t)
              e == pending_confirm[c]
          IN /\ (pc[t] = "archive_list" /\ pc'[t] # "archive_list")
                   => (pages' = pages /\ undo_stack' = undo_stack)
             /\ (pc[t] = "pps" /\ pc'[t] # "pps" /\ e.type = "archive_select")
                   => /\ pages' = pages /\ undo_stack' = undo_stack
                      /\ pc'[t] = "pps_run"
                            => Range(loc'[t].sel)
                                  = SelectedOf(e, Lower(Strip(txt[t])))
             /\ (pc[t] = "pps_run" /\ pc'[t] # "pps_run"
                 /\ loc[t].act = "archive_select")
                   => /\ ArchivedBy(t) \subseteq Range(loc[t].sel)
                      /\ Len(pages') = Len(pages)
                      /\ \A q \in 1..Len(pages) :
                            pages'[q] = IF q \in ArchivedBy(t)
                                        THEN [pages[q] EXCEPT !.archived = TRUE]
                                        ELSE pages[q]
                      /\ IF ArchivedBy(t) = {}
                         THEN undo_stack' = undo_stack
                         ELSE /\ Len(undo_stack'[c]) = Len(undo_stack[c]) + 1
                              /\ SubSeq(undo_stack'[c], 1, Len(undo_stack[c]))
                                    = undo_stack[c]
                              /\ LET rec == undo_stack'[c][Len(undo_stack'[c])]
                                 IN /\ rec.action = "archive"
                                    /\ Range(rec.pages) = ArchivedBy(t)]_vars

C17_Witness ==
    \E t \in Threads, c \in Chats :
       /\ pc[t] = "done"
       /\ loc[t].act = "archive_select"
       /\ \E q \in 1..Len(pages) : pages[q].archived /\ <<"archive", q>> \in did[t]
       /\ \E q \in 1..Len(pages) : pages[q].db = "cal" /\ ~pages[q].archived
       /\ undo_stack[c] # <<>>
       /\ undo_stack[c][Len(undo_stack[c])].action = "archive"

----------------------------------------------------------------------------
(* The waiting animation *)

\* animate: one turn of the loop, an edit of the timer message; the loop
\* condition reads the clock only
AnimEdit(a) ==
    /\ anim[a].st = "loop"
    /\ anim[a].left > 0
    /\ anim' = [anim EXCEPT ![a].left = @ - 1, ![a].msg = "waiting"]
    /\ UNCHANGED <<pages, pending_confirm, undo_stack, pc, txt, loc, did, sweep,
                   rq, target, env, ping>>

\* animate: the duration is over, the timer message is edited to
\* 'Thao tac cho da het han' and the thread ends
AnimExpire(a) ==
    /\ anim[a].st = "loop"
    /\ anim[a].left = 0
    /\ anim' = [anim EXCEPT ![a].st = "ended", ![a].msg = "expired"]
    /\ UNCHANGED <<pages, pending_confirm, undo_stack, pc, txt, loc, did, sweep,
                   rq, target, env, ping>>

AnimTexts ==
    { <<"g","1"," ","dd","a'","o">>,
      <<"g","a","m"," ","x","o'","a">>,
      <<"/","c","a","n","c","e","l">>,
      <<"/","o","k">>,
      <<"1">> }

WebhookAnim(t, m) == Quiet /\ Webhook(t, m)

NextAnim ==
    \/ \E t \in Threads, m \in AnimTexts : WebhookAnim(t, m)
    \/ \E t \in Threads : Handle(t)
    \/ \E t \in Threads : CancelStop(t)
    \/ \E t \in Threads : ArchiveList(t)
    \/ \E t \in Threads : DaoCmd(t)
    \/ \E t \in Threads : Pps(t)
    \/ \E t \in Threads : PpsRun(t)
    \/ \E t \in Threads : DaoRun(t)
    \/ \E t \in Threads : DaoDays(t)
    \/ \E t \in Threads : DaoLai(t)
    \/ \E t \in Threads : DaoFinish(t)
    \/ \E a \in Threads : AnimEdit(a)
    \/ \E a \in Threads : AnimExpire(a)

AnimSpec == Init /\ [][NextAnim]_vars

\* C18: once stop_waiting_animation has been called for the chat of an
\* entry, the animation thread of that entry makes no further edit of the
\* timer message and never writes the expiry text.
C18_StoppedAnimationIsSilent ==
    [][\A a \in Threads :
          anim[a].stopped => (anim'[a].left = anim[a].left
                              /\ anim'[a].msg = anim[a].msg)]_vars

----------------------------------------------------------------------------
(* The restriction to one chat *)

\* TELEGRAM_CHAT_ID is empty or names the owner's chat
InitChat ==
    /\ \E id \in {"", MainChat} : env = [InitialEnv EXCEPT !.TELEGRAM_CHAT_ID = id]
    /\ pages = InitialPages
    /\ pending_confirm = [c \in Chats |-> NoEntry]
    /\ undo_stack = [c \in Chats |-> <<>>]
    /\ pc = [t \in Threads |-> "idle"]
    /\ txt = [t \in Threads |-> <<>>]
    /\ loc = [t \in Threads |-> NoLoc]
    /\ did = [t \in Threads |-> {}]
    /\ sweep = "sleep"
    /\ rq = NoCall
    /\ anim = [t \in Threads |-> NoAnim]
    /\ ping = NoPing
    /\ target = InitialTargets

ChatTexts ==
    { <<"g","a","m"," ","2">>,
      <<"g","a","m"," ","x","o'","a">>,
      <<"g","1"," ","dd","a'","o">>,
      <<"/","o","k">>,
      <<"1">> }

WebhookChat(t, c, m) == Quiet /\ WebhookFrom(t, c, m)

NextChat ==
    \/ \E t \in Threads, c \in Chats, m \in ChatTexts : WebhookChat(t, c, m)
    \/ \E t \in Threads : Handle(t)
    \/ \E t \in Threads : AutoMark(t)
    \/ \E t \in Threads : ArchiveList(t)
    \/ \E t \in Threads : DaoCmd(t)
    \/ \E t \in Threads : Pps(t)
    \/ \E t \in Threads : PpsRun(t)
    \/ \E t \in Threads : DaoRun(t)
    \/ \E t \in Threads : DaoDays(t)
    \/ \E t \in Threads : DaoLai(t)
    \/ \E t \in Threads : DaoFinish(t)

ChatSpec == InitChat /\ [][NextChat]_vars

\* C19: when TELEGRAM_CHAT_ID is configured, the handling of a message from
\* another chat id ends at once with the refusal message: pending_confirm,
\* undo_stack and the Notion pages are unchanged, no Notion request is made
\* and no animation is started, whatever the text and whatever is pending.
C19_OtherChatRefused ==
    [][\A t \in Threads :
          (/\ pc[t] = "recv" /\ pc'[t] # "recv"
           /\ env.TELEGRAM_CHAT_ID # ""
           /\ loc[t].chat # env.TELEGRAM_CHAT_ID)
             => /\ pc'[t] = "done"
                /\ loc'[t].reply = "refused"
                /\ did'[t] = {}
                /\ UNCHANGED <<pending_confirm, undo_stack, pages, did, anim>>]_vars

C19_Witness ==
    \E t \in Threads :
       /\ pc[t] = "done"
       /\ loc[t].chat = "c2"
       /\ loc[t].reply = "refused"
       /\ pending_confirm[MainChat].type = "dao_confirm"
       /\ \E u \in Threads : u < t /\ loc[u].chat = MainChat /\ pc[u] = "done"

----------------------------------------------------------------------------
(* switch_app: ON, OFF and their undo *)

\* a switch record that forgets the Lai page
SwitchRecordNoLai(action, target_id, snapshot, archived_pages, created_pages, lai_page_id) ==
    [action |-> action, target_id |-> target_id, snapshot |-> snapshot,
     archived_pages |-> archived_pages, created_pages |-> created_pages,
     lai_page_id |-> 0]

\* the undo records of handle_switch_on and handle_switch_off
SwitchRecord(action, target_id, snapshot, archived_pages, created_pages, lai_page_id) ==
    [action |-> action, target_id |-> target_id, snapshot |-> snapshot,
     archived_pages |-> archived_pages, created_pages |-> created_pages,
     lai_page_id |-> lai_page_id]

\* the function returns: the thread ends, nfail is the number of its Notion
\* calls that did not succeed
Return(t, nfail) ==
    /\ pc' = [pc EXCEPT ![t] = "done"]
    /\ txt' = [txt EXCEPT ![t] = <<>>]
    /\ loc' = [loc EXCEPT ![t].kw = <<>>, ![t].nfail = nfail]

\* day pages dated from tomorrow on
SwitchDaysFromTomorrow(pid, C) ==
    LET days == SortedSeqOfSet(C)
    IN [k \in 1..Len(days) |-> Page("cal", pid, Today + days[k] + 1, TRUE)]

\* the day pages handle_switch_on creates for the successful requests C,
\* from today on
SwitchDays(pid, C) ==
    LET days == SortedSeqOfSet(C)
    IN [k \in 1..Len(days) |-> Page("cal", pid, Today + days[k], TRUE)]

\* handle_switch_on
SwitchOn(t) ==
    /\ pc[t] = "switch_on"
    /\ LET c       == ChatOf(t)
           matches == find_target_matches(loc[t].kw)
       IN IF matches = <<>>
          THEN Return(t, 0) /\ UNCHANGED <<pages, undo_stack, did, target>>
          ELSE LET page_id   == matches[1]
                   props     == TargetProps(page_id)
                   take_days == props.ngay_truoc
               IN \E okUpd \in BOOLEAN, C \in SUBSET (0..(take_days - 1)) :
                     LET created_pages == NewDayIds(pages, C)
                     IN /\ target' =
                              IF okUpd
                              THEN [target EXCEPT ![page_id].sw =
                                      [@ EXCEPT !.status = "In progress",
                                                !.ngay_dao = Today,
                                                !.qdt = env.SWITCH_QDT_PAGE_ID,
                                                !.ttd = env.SWITCH_TTD_PAGE_ID]]
                              ELSE target
                        /\ pages' = pages \o SwitchDays(page_id, C)
                        /\ Record(t, "create", Range(created_pages))
                        /\ Push(c, SwitchRecord("switch_on", page_id, props.sw,
                                                <<>>, created_pages, 0))
                        /\ Return(t, (Max2(take_days, 0) - Cardinality(C))
                                     + (IF okUpd THEN 0 ELSE 1))
    /\ UNCHANGED <<pending_confirm, sweep, rq, env, anim, ping>>

\* handle_switch_off
SwitchOff(t) ==
    /\ pc[t] = "switch_off"
    /\ LET c       == ChatOf(t)
           matches == find_target_matches(loc[t].kw)
       IN IF matches = <<>>
          THEN Return(t, 0) /\ UNCHANGED <<pages, undo_stack, did, target>>
          ELSE LET page_id == matches[1]
                   props   == TargetProps(page_id)
                   archived_pages == RelatedDays(pages, page_id)
                   wantLai == props.ck > 0
               IN \E S \in SUBSET Range(archived_pages), okUpd \in BOOLEAN,
                     laiOk \in (IF LA_NOTION_DATABASE_ID THEN BOOLEAN ELSE {FALSE}) :
                     LET mk          == wantLai /\ laiOk
                         lai_page_id == IF mk THEN Len(pages) + 1 ELSE 0
                         ps1         == SetArchived(pages, S, TRUE)
                     IN /\ pages' = IF mk
                                    THEN Append(ps1, Page("lai", page_id, Today, FALSE))
                                    ELSE ps1
                        /\ did' = [did EXCEPT ![t] =
                                     @ \cup {<<"archive", p>> : p \in S}
                                       \cup (IF mk THEN {<<"create", lai_page_id>>}
                                             ELSE {})]
                        /\ target' =
                              IF okUpd
                              THEN [target EXCEPT ![page_id].sw =
                                      [@ EXCEPT !.status = "Done",
                                                !.ngay_xong = Today,
                                                !.qdt = FALSE, !.ttd = FALSE]]
                              ELSE target
                        /\ Push(c, SwitchRecord("switch_off", page_id, props.sw,
                                                archived_pages, <<>>, lai_page_id))
                        /\ Return(t, Cardinality(Range(archived_pages) \ S)
                                     + (IF wantLai /\ ~laiOk THEN 1 ELSE 0)
                                     + (IF okUpd THEN 0 ELSE 1))
    /\ UNCHANGED <<pending_confirm, sweep, rq, env, anim, ping>>

\* a call switch_app.undo_switch(chat_id) by a thread of its own.  The undo
\* branch of handle_incoming_message names undo_switch without its module,
\* so the function is entered here as the exported function it is.
CallUndoSwitch(t) ==
    /\ pc[t] = "idle"
    /\ \A u \in Threads : u < t => pc[u] # "idle"
    /\ \A u \in Threads : pc[u] \in {"idle", "done"}
    /\ pc' = [pc EXCEPT ![t] = "undo_switch"]
    /\ loc' = [loc EXCEPT ![t].chat = MainChat, ![t].act = "undo_switch"]
    /\ UNCHANGED <<pages, pending_confirm, undo_stack, txt, did, sweep, rq,
                   target, env, anim, ping>>

\* undo_switch
UndoSwitch(t) ==
    /\ pc[t] = "undo_switch"
    /\ LET c     == ChatOf(t)
           stack == undo_stack[c]
           log   == stack[Len(stack)]
       IN IF stack = <<>>
          THEN Return(t, 0) /\ UNCHANGED <<pages, undo_stack, did, target>>
          ELSE /\ undo_stack' = [undo_stack EXCEPT ![c] = SubSeq(stack, 1, Len(stack) - 1)]
               /\ IF log.action \notin {"switch_on", "switch_off"}
                  \* log["target_id"] raises KeyError, caught; no branch applies
                  THEN Return(t, 0) /\ UNCHANGED <<pages, did, target>>
                  ELSE \E okUpd \in BOOLEAN :
                         /\ target' = IF okUpd
                                      THEN [target EXCEPT ![log.target_id].sw = log.snapshot]
                                      ELSE target
                         /\ IF log.action = "switch_on"
                            THEN \E S \in SUBSET Range(log.created_pages) :
                                    /\ pages' = SetArchived(pages, S, TRUE)
                                    /\ Record(t, "archive", S)
                                    /\ Return(t, Cardinality(Range(log.created_pages) \ S)
                                                 + (IF okUpd THEN 0 ELSE 1))
                            ELSE \E U \in SUBSET Range(log.archived_pages),
                                    L \in SUBSET (IF log.lai_page_id # 0
                                                  THEN {log.lai_page_id} ELSE {}) :
                                    /\ pages' = SetArchived(SetArchived(pages, U, FALSE),
                                                            L, TRUE)
                                    /\ did' = [did EXCEPT ![t] =
                                                 @ \cup {<<"unarchive", p>> : p \in U}
                                                   \cup {<<"archive", p>> : p \in L}]
                                    /\ Return(t, Cardinality(Range(log.archived_pages) \ U)
                                                 + (IF log.lai_page_id # 0 /\ L = {}
                                                    THEN 1 ELSE 0)
                                                 + (IF okUpd THEN 0 ELSE 1))
    /\ UNCHANGED <<pending_confirm, sweep, rq, env, anim, ping>>

\* the properties of target 11 the switch reads, and the Lai database id
InitSwitch ==
    /\ \E ck \in {0, LaiAmount}, ngay_truoc \in {0, NgayTruocDays},
          status \in {"In progress", "Done"} :
          target = [InitialTargets EXCEPT ![11] =
                       [InitialTargets[11] EXCEPT
                           !.ck = ck, !.ngay_truoc = ngay_truoc,
                           !.sw = [InitialTargets[11].sw EXCEPT !.status = status]]]
    /\ \E la \in BOOLEAN : env = [InitialEnv EXCEPT !.LA_NOTION_DATABASE_ID = la]
    /\ pages = InitialPages
    /\ pending_confirm = [c \in Chats |-> NoEntry]
    /\ undo_stack = [c \in Chats |-> <<>>]
    /\ pc = [t \in Threads |-> "idle"]
    /\ txt = [t \in Threads |-> <<>>]
    /\ loc = [t \in Threads |-> NoLoc]
    /\ did = [t \in Threads |-> {}]
    /\ sweep = "sleep"
    /\ rq = NoCall
    /\ anim = [t \in Threads |-> NoAnim]
    /\ ping = NoPing

SwitchTexts ==
    { <<"g","1"," ","o","n">>,
      <<"x"," ","o","n">>,
      <<"g","1"," ","o","f","f">>,
      <<"g","2"," ","o","f","f">> }

\* the number of switch commands and undo calls of one behaviour
SwitchCalls == 2

WebhookSwitch(t, m) == t <= SwitchCalls /\ Quiet /\ Webhook(t, m)

UndoSwitchCall(t) == t <= SwitchCalls /\ CallUndoSwitch(t)

NextSwitch ==
    \/ \E t \in Threads, m \in SwitchTexts : WebhookSwitch(t, m)
    \/ \E t \in Threads : Handle(t)
    \/ \E t \in Threads : SwitchOn(t)
    \/ \E t \in Threads : SwitchOff(t)
    \/ \E t \in Threads : UndoSwitchCall(t)
    \/ \E t \in Threads : UndoSwitch(t)

SwitchSpec == InitSwitch /\ [][NextSwitch]_vars

\* the pages a step archives, unarchives and creates
StepArchived == {p \in 1..Len(pages) : ~pages[p].archived /\ pages'[p].archived}

StepUnarchived == {p \in 1..Len(pages) : pages[p].archived /\ ~pages'[p].archived}

\* thread t has returned from the function named act with every Notion call
\* answered by a success
Succeeded(t, act) ==
    pc[t] = "done" /\ loc[t].act = act /\ loc[t].nfail = 0

\* C20: handle_switch_off followed by undo_switch for the same chat is a
\* round trip when every Notion call succeeds.  A successful OFF records
\* exactly the pages it archived, the Lai page it created and the target's
\* properties as they were; a successful ON records exactly the pages it
\* created and the properties as they were; a successful undo_switch pops
\* exactly one record, PATCHes its snapshot back, unarchives every page of
\* archived_pages and archives the Lai page (switch_off) or archives every
\* created page (switch_on).  So after OFF and then undo_switch the calendar
\* pages are as before OFF, every page made since is archived, and the
\* stack is as before OFF.
C20_SwitchStepsAreInverse ==
    \A t \in Threads :
        LET c      == ChatOf(t)
            stack  == undo_stack[c]
            stack2 == undo_stack'[c]
            top    == stack[Len(stack)]
            top2   == stack2[Len(stack2)]
        IN /\ (pc[t] = "switch_off" /\ loc'[t].nfail = 0 /\ stack2 # stack) =>
                /\ stack2 = Append(stack, top2)
                /\ top2.action = "switch_off"
                /\ top2.snapshot = target[top2.target_id].sw
                /\ Range(top2.archived_pages) = StepArchived
                /\ StepUnarchived = {}
                /\ {top2.lai_page_id} \ {0} = (Len(pages) + 1)..Len(pages')
                /\ \A p \in (Len(pages) + 1)..Len(pages') : pages'[p].db = "lai"
           /\ (pc[t] = "switch_on" /\ loc'[t].nfail = 0 /\ stack2 # stack) =>
                /\ stack2 = Append(stack, top2)
                /\ top2.action = "switch_on"
                /\ top2.snapshot = target[top2.target_id].sw
                /\ Range(top2.created_pages) = (Len(pages) + 1)..Len(pages')
                /\ StepArchived = {} /\ StepUnarchived = {}
           /\ (pc[t] = "undo_switch" /\ loc'[t].nfail = 0 /\ stack # <<>>
                 /\ top.action \in {"switch_on", "switch_off"}) =>
                /\ stack2 = SubSeq(stack, 1, Len(stack) - 1)
                /\ target'[top.target_id].sw = top.snapshot
                /\ \A q \in DOMAIN target : q # top.target_id => target'[q] = target[q]
                /\ Len(pages') = Len(pages)
                /\ top.action = "switch_off" =>
                      /\ \A p \in Range(top.archived_pages) : ~pages'[p].archived
                      /\ top.lai_page_id # 0 => pages'[top.lai_page_id].archived
                      /\ StepArchived \subseteq {top.lai_page_id}
                /\ top.action = "switch_on" =>
                      /\ \A p \in Range(top.created_pages) : pages'[p].archived
                      /\ StepUnarchived = {}

C20_RoundTripState ==
    \A a \in {"switch_on", "switch_off"} :
        (/\ Succeeded(1, a) /\ Succeeded(2, "undo_switch")
         /\ \A u \in Threads \ {1, 2} : pc[u] = "idle") =>
            /\ SubSeq(pages, 1, Len(InitialPages)) = InitialPages
            /\ \A p \in (Len(InitialPages) + 1)..Len(pages) : pages[p].archived
            /\ \A c \in Chats : undo_stack[c] = <<>>

C20_SwitchUndoRoundTrip ==
    [][C20_SwitchStepsAreInverse]_vars /\ []C20_RoundTripState

\* OFF archived both day pages of the target and made a Lai page, and
\* undo_switch then unarchived the two and archived the Lai page
C20_Witness ==
    /\ Succeeded(1, "switch_off")
    /\ Succeeded(2, "undo_switch")
    /\ {<<"archive", 1>>, <<"archive", 2>>, <<"create", 4>>} \subseteq did[1]
    /\ did[2] = {<<"unarchive", 1>>, <<"unarchive", 2>>, <<"archive", 4>>}
    /\ target[11].sw.status = "In progress"

\* C21: handle_switch_on for a found target makes N = 'ngay truoc' create
\* requests; the pages made are calendar pages of the target with Da Gop
\* set, one per day, dated within today .. today + N - 1, and they are all N
\* days when no request is refused; it pushes exactly one switch_on record
\* whose created_pages are exactly the ids of the pages made.  When no
\* target matches the keyword, the pages, the targets and the undo stacks
\* stay as they are.
C21_SwitchOnStep ==
    \A t \in Threads :
        pc[t] = "switch_on" =>
            LET c       == ChatOf(t)
                matches == find_target_matches(loc[t].kw)
                N       == Max2(TargetProps(matches[1]).ngay_truoc, 0)
                top2    == undo_stack'[c][Len(undo_stack'[c])]
            IN IF matches = <<>>
               THEN pages' = pages /\ target' = target /\ undo_stack' = undo_stack
               ELSE /\ SubSeq(pages', 1, Len(pages)) = pages
                    /\ Cardinality(NewPageIds) <= N
                    /\ loc'[t].nfail = 0 => Cardinality(NewPageIds) = N
                    /\ \A p \in NewPageIds :
                          /\ pages'[p].db = "cal"
                          /\ pages'[p].owner = matches[1]
                          /\ pages'[p].checked
                          /\ ~pages'[p].archived
                          /\ pages'[p].date \in Today..(Today + N - 1)
                    /\ \A p, q \in NewPageIds :
                          p < q => pages'[p].date < pages'[q].date
                    /\ undo_stack'[c] = Append(undo_stack[c], top2)
                    /\ \A d \in Chats \ {c} : undo_stack'[d] = undo_stack[d]
                    /\ top2.action = "switch_on"
                    /\ top2.target_id = matches[1]
                    /\ Range(top2.created_pages) = NewPageIds
                    /\ Len(top2.created_pages) = Cardinality(NewPageIds)

----------------------------------------------------------------------------
(* daily_ping_1355_vn *)

\* the clock advances in slots of SlotSeconds seconds; a day is shortened to
\* DayMinutes minutes, of which minute PingMinute stands for 13:55
SlotSeconds == 15

DayMinutes == 6

PingMinute == 3

MaxDays == 3

\* how many slots a sleep may overrun
SleepJitter == 1

Slots(seconds) == (seconds + SlotSeconds - 1) \div SlotSeconds

SlotsPerDay == DayMinutes * Slots(60)

\* now_vn.minute of a slot of the day
MinuteOf(slot) == slot \div Slots(60)

\* the time since midnight of day 0, in slots
Now == ping.day * SlotsPerDay + ping.slot

\* whether the name VN_TZ is bound where daily_ping_1355_vn looks it up:
\* the module binds it nowhere, only two other functions bind a local
\* of that name
VN_TZ_Bound == FALSE

\* one iteration of the loop of daily_ping_1355_vn, from the read of the
\* clock to the end of the sleep that follows it
DailyPing ==
    /\ ping.pc = "loop"
    /\ Now >= ping.wake
    /\ IF ~VN_TZ_Bound
       \* datetime.now(VN_TZ) raises NameError, the thread ends
       THEN ping' = [ping EXCEPT !.pc = "dead"]
       ELSE LET today_str == ping.day
            IN IF MinuteOf(ping.slot) = PingMinute /\ ping.last_ping_date # today_str
               THEN ping' = [ping EXCEPT !.sent = Append(@, today_str),
                                         !.last_ping_date = today_str,
                                         !.wake = Now + Slots(65) + Slots(15)]
               ELSE ping' = [ping EXCEPT !.wake = Now + Slots(15)]
    /\ UNCHANGED <<pages, pending_confirm, undo_stack, pc, txt, loc, did, sweep,
                   rq, target, env, anim>>

\* SlotSeconds seconds pass; a sleeping thread wakes at most SleepJitter
\* slots late
ClockTick ==
    /\ ping.pc = "dead" \/ Now < ping.wake + SleepJitter
    /\ ping.day < MaxDays - 1 \/ ping.slot < SlotsPerDay - 1
    /\ ping' = IF ping.slot = SlotsPerDay - 1
               THEN [ping EXCEPT !.day = @ + 1, !.slot = 0]
               ELSE [ping EXCEPT !.slot = @ + 1]
    /\ UNCHANGED <<pages, pending_confirm, undo_stack, pc, txt, loc, did, sweep,
                   rq, target, env, anim>>

\* the process starts, and with it the thread, at any time of day 0
InitPing ==
    /\ \E s \in 0..(SlotsPerDay - 1) :
          ping = [NoPing EXCEPT !.slot = s, !.start = s, !.wake = s]
    /\ pages = InitialPages
    /\ pending_confirm = [c \in Chats |-> NoEntry]
    /\ undo_stack = [c \in Chats |-> <<>>]
    /\ pc = [t \in Threads |-> "idle"]
    /\ txt = [t \in Threads |-> <<>>]
    /\ loc = [t \in Threads |-> NoLoc]
    /\ did = [t \in Threads |-> {}]
    /\ sweep = "sleep"
    /\ rq = NoCall
    /\ target = InitialTargets
    /\ env = InitialEnv
    /\ anim = [t \in Threads |-> NoAnim]

NextPing == DailyPing \/ ClockTick

PingSpec == InitPing /\ [][NextPing]_vars

\* the process ran through the whole of minute PingMinute of day d
RanThroughPingMinute(d) ==
    /\ d > 0 \/ ping.start <= PingMinute * Slots(60)
    /\ ping.day > d \/ (ping.day = d /\ ping.slot >= (PingMinute + 1) * Slots(60))

\* C22: on every day whose 13:55 the process ran through, the thread has
\* sent the GET, and it has sent it at most once for any day.
C22_PingsOnceEveryDay ==
    /\ \A d \in 0..(MaxDays - 1) :
          RanThroughPingMinute(d) => \E k \in DOMAIN ping.sent : ping.sent[k] = d
    /\ \A j, k \in DOMAIN ping.sent : j # k => ping.sent[j] # ping.sent[k]

----------------------------------------------------------------------------
(* undo records of the mark operations *)

\* the pages thread t got a successful Da Gop = true update for in a step
CheckedBy(t) == {r[2] : r \in {q \in did'[t] \ did[t] : q[1] = "check"}}

\* C23: a step of the auto-mark command or of the interactive mark
\* selection that checked at least one page pushes exactly one 'mark'
\* record holding exactly the ids of the pages it checked onto the chat's
\* undo stack; one that checked no page leaves the stack as it is.
C23_MarkStep ==
    \A t \in Threads :
        (pc[t] = "automark" \/ (pc[t] = "pps_run" /\ loc[t].act = "mark")) =>
            LET c     == ChatOf(t)
                stack == undo_stack'[c]
                top   == stack[Len(stack)]
            IN IF CheckedBy(t) # {}
               THEN /\ Len(stack) = Len(undo_stack[c]) + 1
                    /\ stack = Append(undo_stack[c], top)
                    /\ top.action = "mark"
                    /\ Range(top.pages) = CheckedBy(t)
                    /\ Len(top.pages) = Cardinality(CheckedBy(t))
               ELSE stack = undo_stack[c]

C23_EveryMarkIsRecorded == [][C23_MarkStep]_vars

----------------------------------------------------------------------------
(* parse_user_command as a function of the text *)

\* keywords a user may type, and what may follow a keyword
ParseKeys ==
    { <<"g","a","m">>, <<"G","1">>, <<"d","e","l","t","a">>,
      <<"d","a","o">>, <<"u","n","d","o">>, <<"/","u","n","d","o">> }

ParseTails ==
    { <<>>, <<" ","2">>, <<" ","1","0">>, <<" ","x","o'","a">>,
      <<" ","dd","a'","o">>, <<" "," ","dd","a'","o"," ">> }

ParseTexts == {k \o tl : k \in ParseKeys, tl \in ParseTails}

\* a call parse_user_command(raw), one at a time
ParseCall(t, raw) ==
    /\ pc[t] = "idle"
    /\ \A u \in Threads : u < t => pc[u] # "idle"
    /\ \A u \in Threads : pc[u] \in {"idle", "done"}
    /\ pc' = [pc EXCEPT ![t] = "parse"]
    /\ txt' = [txt EXCEPT ![t] = raw]
    /\ UNCHANGED <<pages, pending_confirm, undo_stack, loc, did, sweep, rq,
                   target, env, anim, ping>>

\* the call returns (kw, count, action), kept in the thread's locals
ParseReturn(t) ==
    /\ pc[t] = "parse"
    /\ LET cmd == parse_user_command(txt[t])
       IN loc' = [loc EXCEPT ![t].kw = cmd.kw, ![t].i = cmd.count,
                             ![t].act = cmd.action]
    /\ pc' = [pc EXCEPT ![t] = "done"]
    /\ UNCHANGED <<pages, pending_confirm, undo_stack, txt, did, sweep, rq,
                   target, env, anim, ping>>

NextParse ==
    \/ \E t \in Threads, raw \in ParseTexts : ParseCall(t, raw)
    \/ \E t \in Threads : ParseReturn(t)

ParseSpec == Init /\ [][NextParse]_vars

\* the value (kw, count, action) a call has returned
Parsed(t, kw, count, action) ==
    loc[t].kw = kw /\ loc[t].i = count /\ loc[t].act = action

\* C24: parse_user_command maps a single word other than undo and /undo to
\* (key, 0, None), '<key> <n>' with n a digit string to (key, n, 'mark'),
\* '<key> xoa' to (key, 0, 'archive'), '<key> dao' to (key, 0, 'dao') and
\* 'undo' to the action 'undo'; so a single word never yields 'archive' or
\* 'dao'.
C24_ParseUserCommand ==
    \A t \in Threads :
        pc[t] = "done" =>
            LET raw   == Strip(txt[t])
                parts == Words(raw)
            IN /\ (Len(parts) = 1 /\ Lower(raw) \notin UndoWords) =>
                     /\ Parsed(t, parts[1], 0, "none")
                     /\ loc[t].act \notin {"archive", "dao"}
               /\ (Len(parts) = 2 /\ IsDigit(parts[2])) =>
                     Parsed(t, parts[1], IntOf(parts[2]), "mark")
               /\ (Len(parts) = 2 /\ parts[2] = <<"x","o'","a">>) =>
                     Parsed(t, parts[1], 0, "archive")
               /\ (Len(parts) = 2 /\ parts[2] = <<"dd","a'","o">>) =>
                     Parsed(t, parts[1], 0, "dao")
               /\ raw = <<"u","n","d","o">> => loc[t].act = "undo"

=============================================================================
